---- MODULE Spec2Model ----
(***************************************************************************)
(* Two-phase frictional pressure-drop correlations of fluids/two_phase.py. *)
(*                                                                         *)
(* The correlations are pure functions of real arguments.  Their           *)
(* arithmetic is modelled exactly: a value is a rational coefficient times *)
(* a product of irreducible factors (pi, primes, logarithms, exponentials, *)
(* sums) raised to exponents that are values themselves.  Two values with  *)
(* the same normal form denote the same real number.                       *)
(***************************************************************************)
EXTENDS Integers, Sequences, FiniteSets, TLC

(***************************************************************************)
(* Exact rationals <<n, d>>, d > 0, in lowest terms.  <<c, 0>> is not a    *)
(* number: it is the exception c raised while computing the value.         *)
(***************************************************************************)
RECURSIVE Gcd(_, _)
Gcd(a, b) == IF b = 0 THEN a ELSE Gcd(b, a % b)

Abs(n) == IF n < 0 THEN -n ELSE n

R(n, d) ==
    LET s == IF d < 0 THEN -1 ELSE 1
        g == Gcd(Abs(n), Abs(d))
    IN  <<(s * n) \div g, (s * d) \div g>>

RMul(a, b) ==
    LET g1 == Gcd(Abs(a[1]), b[2])
        g2 == Gcd(Abs(b[1]), a[2])
    IN  <<(a[1] \div g1) * (b[1] \div g2), (a[2] \div g2) * (b[2] \div g1)>>

RInv(a) == IF a[1] < 0 THEN <<-a[2], -a[1]>> ELSE <<a[2], a[1]>>

RAdd(a, b) ==
    LET g == Gcd(a[2], b[2])
    IN  R(a[1] * (b[2] \div g) + b[1] * (a[2] \div g), (a[2] \div g) * b[2])

RNeg(a) == <<-a[1], a[2]>>

RLt(a, b) == a[1] * b[2] < b[1] * a[2]

RFloor(a) == a[1] \div a[2]

RECURSIVE IPow(_, _)
IPow(b, k) == IF k = 0 THEN 1 ELSE b * IPow(b, k - 1)

\* a^k for an integer k and a # 0
RPowInt(a, k) ==
    IF k >= 0 THEN <<IPow(a[1], k), IPow(a[2], k)>>
    ELSE RInv(<<IPow(a[1], -k), IPow(a[2], -k)>>)

\* the prime factorisation of n >= 1 as a function prime -> multiplicity
RECURSIVE Factor(_, _)
Factor(n, p) ==
    IF n = 1 THEN <<>>
    ELSE IF p * p > n THEN (n :> 1)
    ELSE IF n % p = 0
         THEN LET f == Factor(n \div p, p)
              IN  IF p \in DOMAIN f THEN [f EXCEPT ![p] = @ + 1]
                  ELSE f @@ (p :> 1)
         ELSE Factor(n, p + 1)

(***************************************************************************)
(* Real values, in exact arithmetic.  A value [err, p] is the polynomial   *)
(* SUM of p[m] * m over the products m \in DOMAIN p, where p[m] is a       *)
(* non-zero rational and a product m maps each of its factors to the       *)
(* exponent (a value) it is raised to.  Factors: <<"pi">>, <<"p", prime>>, *)
(* <<"log", v>>, <<"exp", v>>, <<"sum", v>> (a sum of several terms, kept  *)
(* whole under an exponent other than 1) and <<"pow", b, e>> (a power with *)
(* no real closed form: a negative base under a fractional exponent, which *)
(* Python 3 evaluates to a complex number).  err names the Python          *)
(* exception raised instead of a value ("" when there is a value).         *)
(* Equal normal forms denote equal reals.                                  *)
(***************************************************************************)
EmptyM == [t \in {} |-> 0]

Mk(p) == [err |-> "", p |-> p]

T1(q, m) == Mk(m :> q)

Zero == Mk([m \in {} |-> <<0, 1>>])

Rat(n, d) == IF n = 0 THEN Zero ELSE T1(R(n, d), EmptyM)

One == Rat(1, 1)

Num(n) == Rat(n, 1)

Raise(e) == [err |-> e, p |-> [m \in {} |-> <<0, 1>>]]

Factr(t) == T1(<<1, 1>>, (t :> One))

Pi == Factr(<<"pi">>)

IsErr(v) == v.err # ""

IsZero(v) == v.err = "" /\ DOMAIN v.p = {}

IsRat(v) == v.err = "" /\ DOMAIN v.p \subseteq {EmptyM}

\* the constant term of v
RatOf(v) == IF EmptyM \in DOMAIN v.p THEN v.p[EmptyM] ELSE <<0, 1>>

IsInt(v) == IsRat(v) /\ RatOf(v)[2] = 1

NTerms(v) == Cardinality(DOMAIN v.p)

\* the only product of a one-term value, and its coefficient
MonoOf(v) == CHOOSE m \in DOMAIN v.p : TRUE

CoefOf(v) == v.p[MonoOf(v)]

RECURSIVE Positive(_)
Positive(v) ==
    /\ v.err = ""
    /\ DOMAIN v.p # {}
    /\ \A m \in DOMAIN v.p :
          /\ v.p[m][1] > 0
          /\ \A t \in DOMAIN m : \/ t[1] \in {"pi", "p", "exp"}
                                 \/ t[1] = "sum" /\ Positive(t[2])

VAdd(a, b) ==
    IF IsErr(a) THEN a
    ELSE IF IsErr(b) THEN b
    ELSE LET c(m) == RAdd(IF m \in DOMAIN a.p THEN a.p[m] ELSE <<0, 1>>,
                          IF m \in DOMAIN b.p THEN b.p[m] ELSE <<0, 1>>)
         IN  Mk([m \in {k \in DOMAIN a.p \cup DOMAIN b.p : c(k)[1] # 0} |-> c(m)])

VScale(r, a) ==
    IF IsErr(a) \/ r[1] = 0 THEN (IF IsErr(a) THEN a ELSE Zero)
    ELSE Mk([m \in DOMAIN a.p |-> RMul(r, a.p[m])])

VNeg(a) == VScale(<<-1, 1>>, a)

VSub(a, b) == VAdd(a, VNeg(b))

\* the product of two products: exponents of common factors add
MonoMul(m1, m2) ==
    [t \in DOMAIN m1 \cup DOMAIN m2 |->
        IF t \notin DOMAIN m2 THEN m1[t]
        ELSE IF t \notin DOMAIN m1 THEN m2[t]
        ELSE VAdd(m1[t], m2[t])]

RECURSIVE FoldPrimes(_, _, _)
FoldPrimes(S, m, q) ==
    IF S = {} THEN q
    ELSE LET t == CHOOSE u \in S : TRUE
         IN  FoldPrimes(S \ {t}, m,
                        RMul(q, RPowInt(<<t[2], 1>>, RFloor(RatOf(m[t])))))

RECURSIVE LogPrimes(_, _)
\* the sum of f[p] * log(p) over the primes p \in S
LogPrimes(S, f) ==
    IF S = {} THEN Zero
    ELSE LET p == CHOOSE u \in S : TRUE
         IN  VAdd(VScale(<<f[p], 1>>, Factr(<<"log", Num(p)>>)),
                  LogPrimes(S \ {p}, f))

\* math.log; the logarithm of a rational is the sum over its prime factors
VLog(a) ==
    IF IsErr(a) THEN a
    ELSE IF IsZero(a) \/ Positive(VNeg(a)) THEN Raise("ValueError")
    ELSE IF IsRat(a)
         THEN LET pn == Factor(RatOf(a)[1], 2)
                  pd == Factor(RatOf(a)[2], 2)
              IN  VSub(LogPrimes(DOMAIN pn, pn), LogPrimes(DOMAIN pd, pd))
    ELSE Factr(<<"log", a>>)

\* math.exp
VExp(a) ==
    IF IsErr(a) THEN a
    ELSE IF IsZero(a) THEN One
    ELSE Factr(<<"exp", a>>)

RECURSIVE PrimeProduct(_)
\* the product of the primes of the factors S
PrimeProduct(S) ==
    IF S = {} THEN 1
    ELSE LET t == CHOOSE u \in S : TRUE IN t[2] * PrimeProduct(S \ {t})

\* v is a positive rational times the square root of a product of primes
IsRoot(v) ==
    /\ v.err = "" /\ NTerms(v) = 1 /\ CoefOf(v)[1] > 0
    /\ \A t \in DOMAIN MonoOf(v) : t[1] = "p" /\ MonoOf(v)[t] = Rat(1, 2)

\* the square of such a value (a positive rational is one, with no prime)
SquareOf(v) ==
    RMul(RMul(CoefOf(v), CoefOf(v)), <<PrimeProduct(DOMAIN MonoOf(v)), 1>>)

\* the order of two values: "lt", "eq", "gt"; "na" when the normal forms do
\* not decide it.  Decided: rationals, and positive rationals times square
\* roots, by their squares.
Cmp(a, b) ==
    IF IsErr(a) \/ IsErr(b) THEN "na"
    ELSE IF IsRat(a) /\ IsRat(b)
         THEN IF RLt(RatOf(a), RatOf(b)) THEN "lt"
              ELSE IF RatOf(a) = RatOf(b) THEN "eq" ELSE "gt"
    ELSE IF IsRoot(a) /\ IsRoot(b)
         THEN IF RLt(SquareOf(a), SquareOf(b)) THEN "lt"
              ELSE IF SquareOf(a) = SquareOf(b) THEN "eq" ELSE "gt"
    ELSE "na"

Le(a, b) == Cmp(a, b) \in {"lt", "eq"}

Lt(a, b) == Cmp(a, b) = "lt"

Ge(a, b) == Cmp(a, b) \in {"gt", "eq"}

HasSum(v, n) == \E m \in DOMAIN v.p : <<"sum", n>> \in DOMAIN m

AnySum(v) == \E m \in DOMAIN v.p : \E t \in DOMAIN m : t[1] = "sum"

NoFact == [g |-> One, n |-> Zero]

(***************************************************************************)
(* Multiplication, inverse and power call one another; they are the arms   *)
(* of one recursive operator, named by op, with arguments w1..w4.          *)
(***************************************************************************)
RECURSIVE Ar(_, _, _, _, _)
Ar(op, w1, w2, w3, w4) ==
    CASE op = "NormTerm" ->
           \* q * m in normal form: no zero exponent, the constant part of a
           \* prime's exponent in [0, 1), no sum under the exponent 1
           LET q == w1
               m == w2
               fl(t) == IF t[1] = "p" THEN RFloor(RatOf(m[t])) ELSE 0
               ex(t) == IF fl(t) = 0 THEN m[t] ELSE VAdd(m[t], Rat(-fl(t), 1))
               kept  == {t \in DOMAIN m : ~IsZero(ex(t))}
               q1    == FoldPrimes({t \in DOMAIN m : fl(t) # 0}, m, q)
               sums  == {t \in kept : t[1] = "sum" /\ ex(t) = One}
           IN  IF sums = {} THEN T1(q1, [t \in kept |-> ex(t)])
               ELSE LET s == CHOOSE u \in sums : TRUE
                    IN  Ar("VMul",
                           Ar("NormTerm", q1, [t \in kept \ {s} |-> ex(t)], 0, 0),
                           s[2], 0, 0)
      [] op = "SumOver" ->
           \* the sum of q * m * b[mb] * mb over the products mb \in S of b,
           \* where qm = <<q, m>>
           LET S  == w1
               qm == w2
               b  == w3
           IN  IF S = {} THEN Zero
               ELSE LET mb == CHOOSE u \in S : TRUE
                    IN  VAdd(Ar("NormTerm", RMul(qm[1], b.p[mb]),
                                MonoMul(qm[2], mb), 0, 0),
                             Ar("SumOver", S \ {mb}, qm, b, 0))
      [] op = "TermPow" ->
           \* (q * m)^e, for q > 0
           LET q == w1
               m == w2
               e == w3
               pn == Factor(q[1], 2)
               pd == Factor(q[2], 2)
               mult(k) == IF k \in DOMAIN pn THEN pn[k] ELSE -pd[k]
               pm == [t \in {<<"p", k>> : k \in DOMAIN pn \cup DOMAIN pd}
                        |-> VScale(<<mult(t[2]), 1>>, e)]
               am == [t \in DOMAIN m |-> Ar("VMul", m[t], e, 0, 0)]
           IN  Ar("NormTerm", <<1, 1>>, MonoMul(pm, am), 0, 0)
      [] op = "GeoMean" ->
           \* the product of the terms S of v, each raised to e
           LET S == w1
               v == w2
               e == w3
           IN  IF S = {} THEN One
               ELSE LET m == CHOOSE u \in S : TRUE
                    IN  Ar("VMul", Ar("TermPow", v.p[m], m, e, 0),
                           Ar("GeoMean", S \ {m}, v, e, 0), 0, 0)
      [] op = "Fact" ->
           \* a sum v of several terms as g * n: g the geometric mean of its
           \* terms when all are positive (so that n does not change when v is
           \* scaled), else 1
           LET v == w1
           IN  IF Positive(v)
               THEN LET gm == Ar("GeoMean", DOMAIN v.p, v, Rat(1, NTerms(v)), 0)
                        gi == Ar("NormTerm", RInv(CoefOf(gm)),
                                 [t \in DOMAIN MonoOf(gm) |-> VNeg(MonoOf(gm)[t])],
                                 0, 0)
                    IN  [g |-> gm,
                         n |-> Ar("SumOver", DOMAIN v.p,
                                  <<CoefOf(gi), MonoOf(gi)>>, v, 0)]
               ELSE [g |-> One, n |-> v]
      [] op = "MulTerms" ->
           \* a * b for the terms S of a, where b = f.g * sum(f.n): a term that
           \* holds the factor sum(f.n) takes b in that form, the others are
           \* multiplied out
           LET S == w1
               a == w2
               b == w3
               f == w4
           IN  IF S = {} THEN Zero
               ELSE LET m == CHOOSE u \in S : TRUE
                        one == IF <<"sum", f.n>> \in DOMAIN m
                               THEN Ar("NormTerm", RMul(a.p[m], CoefOf(f.g)),
                                       MonoMul(MonoMul(m, MonoOf(f.g)),
                                               (<<"sum", f.n>> :> One)), 0, 0)
                               ELSE Ar("SumOver", DOMAIN b.p, <<a.p[m], m>>, b, 0)
                    IN  VAdd(one, Ar("MulTerms", S \ {m}, a, b, f))
      [] op = "VMul" ->
           LET a == w1
               b == w2
               fa == Ar("Fact", a, 0, 0, 0)
               fb == Ar("Fact", b, 0, 0, 0)
           IN  IF IsErr(a) THEN a
               ELSE IF IsErr(b) THEN b
               ELSE IF IsZero(a) \/ IsZero(b) THEN Zero
               ELSE IF NTerms(b) > 1 /\ AnySum(a) /\ HasSum(a, fb.n)
                    THEN Ar("MulTerms", DOMAIN a.p, a, b, fb)
               ELSE IF NTerms(a) > 1 /\ AnySum(b) /\ HasSum(b, fa.n)
                    THEN Ar("MulTerms", DOMAIN b.p, b, a, fa)
               ELSE Ar("MulTerms", DOMAIN a.p, a, b, NoFact)
      [] op = "VInv" ->
           LET a == w1
               f == IF NTerms(a) = 1 THEN [g |-> a, n |-> Zero]
                    ELSE Ar("Fact", a, 0, 0, 0)
               gm == [t \in DOMAIN MonoOf(f.g) |-> VNeg(MonoOf(f.g)[t])]
           IN  IF IsErr(a) THEN a
               ELSE IF IsZero(a) THEN Raise("ZeroDivisionError")
               ELSE Ar("NormTerm", RInv(CoefOf(f.g)),
                       IF NTerms(a) = 1 THEN gm
                       ELSE MonoMul(gm, (<<"sum", f.n>> :> Rat(-1, 1))), 0, 0)
      [] op = "VDiv" ->
           LET a == w1
               b == w2
           IN  IF IsErr(a) THEN a
               ELSE IF IsErr(b) THEN b
               ELSE IF IsZero(b) THEN Raise("ZeroDivisionError")
               ELSE Ar("VMul", a, Ar("VInv", b, 0, 0, 0), 0, 0)
      [] op = "VPow" ->
           LET a == w1
               e == w2
               f == Ar("Fact", a, 0, 0, 0)
               r == Ar("TermPow", <<Abs(CoefOf(a)[1]), CoefOf(a)[2]>>,
                       MonoOf(a), e, 0)
           IN  IF IsErr(a) THEN a
               ELSE IF IsErr(e) THEN e
               ELSE IF IsZero(e) THEN One
               ELSE IF IsZero(a)
                    THEN IF IsRat(e) /\ RatOf(e)[1] < 0
                         THEN Raise("ZeroDivisionError")
                         ELSE Zero
               ELSE IF e = One THEN a
               ELSE IF NTerms(a) = 1
                    THEN IF Positive(a) THEN r
                         ELSE IF IsInt(e)
                              THEN IF CoefOf(a)[1] > 0 \/ RatOf(e)[1] % 2 = 0
                                   THEN r ELSE VNeg(r)
                         ELSE Factr(<<"pow", a, e>>)
               ELSE IF Positive(a) \/ IsInt(e)
                    THEN Ar("VMul",
                            Ar("TermPow", CoefOf(f.g), MonoOf(f.g), e, 0),
                            Ar("NormTerm", <<1, 1>>, (<<"sum", f.n>> :> e), 0, 0),
                            0, 0)
               ELSE Factr(<<"pow", a, e>>)
      [] op = "Eval" ->
           \* the value of the expression e where the variables are env
          (LET e == w1
               env == w2
               l == Ar("Eval", e[2], env, 0, 0)
               r == Ar("Eval", e[3], env, 0, 0)
           IN  CASE e[1] = "k" -> e[2]
                 [] e[1] = "x" -> env[e[2]]
                 [] e[1] = "neg" -> VNeg(l)
                 [] e[1] = "log" -> VLog(l)
                 [] e[1] = "exp" -> VExp(l)
                 [] e[1] = "+" -> VAdd(l, r)
                 [] e[1] = "-" -> VSub(l, r)
                 [] e[1] = "*" -> Ar("VMul", l, r, 0, 0)
                 [] e[1] = "/" -> Ar("VDiv", l, r, 0, 0)
                 [] e[1] = "**" -> Ar("VPow", l, r, 0, 0))
      [] op = "Math" ->
           \* the calls of math.log and math.exp made evaluating e, left to
           \* right, up to the first exception
          (LET e == w1
               env == w2
               l == Ar("Eval", e[2], env, 0, 0)
               ml == Ar("Math", e[2], env, 0, 0)
           IN  CASE e[1] \in {"k", "x"} -> {}
                 [] e[1] = "neg" -> ml
                 [] e[1] \in {"log", "exp"} ->
                      ml \cup (IF IsErr(l) THEN {} ELSE {<<e[1], l>>})
                 [] OTHER ->
                      ml \cup (IF IsErr(l) THEN {}
                               ELSE Ar("Math", e[3], env, 0, 0)))
      [] op = "Test" ->
           \* the truth of the condition c: "T", "F", or "na" (undecided)
          (LET c == w1
               env == w2
               l == Ar("Eval", c[2], env, 0, 0)
               r == Ar("Eval", c[3], env, 0, 0)
           IN  CASE c[1] = "var" -> IF env[c[2]] THEN "T" ELSE "F"
                 [] c[1] = "==" -> IF l = r THEN "T" ELSE "F"
                 [] c[1] = "<" ->
                      IF Cmp(l, r) = "na" THEN "na"
                      ELSE IF Cmp(l, r) = "lt" THEN "T" ELSE "F"
                 [] c[1] = "<=" ->
                      IF Cmp(l, r) = "na" THEN "na"
                      ELSE IF Cmp(l, r) \in {"lt", "eq"} THEN "T" ELSE "F"
                 [] c[1] = ">" ->
                      IF Cmp(l, r) = "na" THEN "na"
                      ELSE IF Cmp(l, r) = "gt" THEN "T" ELSE "F"
                 [] c[1] = ">=" ->
                      IF Cmp(l, r) = "na" THEN "na"
                      ELSE IF Cmp(l, r) \in {"gt", "eq"} THEN "T" ELSE "F")
      [] op = "Exec" ->
           \* the frame after the statements prog are run in the frame f:
           \* <<"=", name, e>>, <<"return", e>>, <<"if", c, then, else>>
           LET prog == w1
               f == w2
               s == Head(prog)
               e == IF s[1] = "=" THEN s[3] ELSE s[2]
               val == Ar("Eval", e, f.v, 0, 0)
               t == Ar("Test", s[2], f.v, 0, 0)
               f1 == [f EXCEPT !.math = @ \cup Ar("Math", e, f.v, 0, 0)]
               after ==
                   IF s[1] = "if"
                   THEN IF t = "na" THEN [f EXCEPT !.exc = "Undecided"]
                        ELSE Ar("Exec", IF t = "T" THEN s[3] ELSE s[4], f, 0, 0)
                   ELSE IF IsErr(val) THEN [f1 EXCEPT !.exc = val.err]
                   ELSE IF s[1] = "=" THEN [f1 EXCEPT !.v = (s[2] :> val) @@ @]
                   ELSE [f1 EXCEPT !.out = <<val>>]
           IN  IF prog = <<>> \/ f.exc # "" \/ f.out # <<>> THEN f
               ELSE Ar("Exec", Tail(prog), after, 0, 0)

\* Python's a * b
VMul(a, b) == Ar("VMul", a, b, 0, 0)

\* Python's a / b
VDiv(a, b) == Ar("VDiv", a, b, 0, 0)

\* Python's a ** e
VPow(a, e) == Ar("VPow", a, e, 0, 0)

Eval(e, env) == Ar("Eval", e, env, 0, 0)

\* a frame: the local variables assigned so far, the exception raised (if
\* any), the value returned (if any), the calls of math.log and math.exp made
Frame(v) == [v |-> v, exc |-> "", out |-> <<>>, math |-> {}]

Exec(prog, f) == Ar("Exec", prog, f, 0, 0)

(***************************************************************************)
(* Python source as data: expressions, conditions and statements.          *)
(***************************************************************************)
\* the literal n/d, and the integer literal n
K(n, d) == <<"k", Rat(n, d)>>

N(n) == <<"k", Rat(n, 1)>>

\* math.pi
PiK == <<"k", Pi>>

\* a value already computed
Const(v) == <<"k", v>>

\* a local variable or argument
X(name) == <<"x", name>>

Add(a, b) == <<"+", a, b>>

Sub(a, b) == <<"-", a, b>>

Mul(a, b) == <<"*", a, b>>

Div(a, b) == <<"/", a, b>>

Pow(a, b) == <<"**", a, b>>

Neg(a) == <<"neg", a>>

Ln(a) == <<"log", a>>

Ex(a) == <<"exp", a>>

CEq(a, b) == <<"==", a, b>>

CLt(a, b) == <<"<", a, b>>

CLe(a, b) == <<"<=", a, b>>

CGt(a, b) == <<">", a, b>>

CGe(a, b) == <<">=", a, b>>

CVar(name) == <<"var", name>>

Asg(name, e) == <<"=", name, e>>

Ret(e) == <<"return", e>>

If(c, s1, s2) == <<"if", c, s1, s2>>

(***************************************************************************)
(* The providers the correlations import (fluids.core, fluids.friction,    *)
(* fluids.two_phase_voidage).  The dimensionless groups are their textbook *)
(* definitions, as the docstrings of two_phase.py state them.              *)
(***************************************************************************)
\* standard gravity, to three figures
g == K(981, 100)

Reynolds(V, rho, mu, D) == Div(Mul(Mul(rho, V), D), mu)

\* Froude(V, L, squared=True)
Froude(V, L) == Div(Pow(V, N(2)), Mul(L, g))

Weber(V, L, rho, sigma) == Div(Mul(Mul(Pow(V, N(2)), L), rho), sigma)

Bond(rhol, rhog, sigma, L) ==
    Div(Mul(Mul(g, Sub(rhol, rhog)), Pow(L, N(2))), sigma)

Confinement(D, rhol, rhog, sigma) ==
    Div(Pow(Div(sigma, Mul(g, Sub(rhol, rhog))), K(1, 2)), D)

\* the homogeneous void fraction, a value in [0, 1] for every x in [0, 1]
homogeneous(x, rhol, rhog) ==
    Div(Mul(x, rhol), Add(Mul(x, rhol), Mul(Sub(N(1), x), rhog)))

Lockhart_Martinelli_Xtt(x, rhol, rhog, mul, mug) ==
    Mul(Mul(Pow(Div(Sub(N(1), x), x), K(9, 10)),
            Pow(Div(rhog, rhol), K(1, 2))),
        Pow(Div(mul, mug), K(1, 10)))

(***************************************************************************)
(* Calls.  Python binds the arguments, then runs the body; the body is     *)
(* cut into blocks at its calls of friction_factor, whose answer is the    *)
(* provider's: any positive value, the same for the same (Re, eD).         *)
(***************************************************************************)
Correlations ==
    {"Friedel", "Gronnerud", "Chisholm", "Baroczy_Chisholm",
     "Muller_Steinhagen_Heck", "Lombardi_Pedrocchi", "Theissing",
     "Jung_Radermacher", "Tran", "Chen_Friedel", "Zhang_Webb"}

\* the parameters of each def, and those that have a default
Params(f) ==
    CASE f \in {"Friedel", "Tran", "Chen_Friedel"} ->
           {"m", "x", "rhol", "rhog", "mul", "mug", "sigma", "D", "roughness", "L"}
      [] f = "Chisholm" ->
           {"m", "x", "rhol", "rhog", "mul", "mug", "D", "roughness", "L",
            "rough_correction"}
      [] f = "Lombardi_Pedrocchi" -> {"m", "x", "rhol", "rhog", "sigma", "D", "L"}
      [] f = "Zhang_Webb" -> {"m", "x", "rhol", "mul", "P", "Pc", "D", "roughness", "L"}
      [] OTHER -> {"m", "x", "rhol", "rhog", "mul", "mug", "D", "roughness", "L"}

Defaults(f) ==
    CASE f = "Chen_Friedel" -> {}
      [] f = "Lombardi_Pedrocchi" -> {"L"}
      [] f = "Chisholm" -> {"roughness", "L", "rough_correction"}
      [] OTHER -> {"roughness", "L"}

DefaultOf(name) ==
    CASE name = "roughness" -> Zero
      [] name = "L" -> One
      [] name = "rough_correction" -> FALSE

\* the blocks of each body, in order
Flow(f) ==
    CASE f = "Friedel" -> <<"lo", "go", "Friedel">>
      [] f = "Gronnerud" -> <<"Gronnerud", "lo", "Gronnerud_return">>
      [] f = "Chisholm" -> <<"lo", "go", "Chisholm">>
      [] f = "Baroczy_Chisholm" -> <<"lo", "go", "Baroczy_Chisholm">>
      [] f = "Muller_Steinhagen_Heck" -> <<"lo", "go", "Muller_Steinhagen_Heck">>
      [] f = "Lombardi_Pedrocchi" -> <<"Lombardi_Pedrocchi">>
      [] f = "Theissing" -> <<"lo", "go", "Theissing_ends", "l", "g", "Theissing">>
      [] f = "Jung_Radermacher" -> <<"lo", "Jung_Radermacher">>
      [] f = "Tran" -> <<"lo", "go", "Tran">>
      [] f = "Chen_Friedel" -> <<"lo", "go", "Chen_Friedel">>
      [] f = "Zhang_Webb" -> <<"lo", "Zhang_Webb">>

\* pi/4*D**2
Area == Mul(Div(PiK, N(4)), Pow(X("D"), N(2)))

\* the statements of a single-phase block before its call of the provider:
\*   v = flow/rho/(pi/4*D**2); Re = Reynolds(V=v, rho=rho, mu=mu, D=D)
PhaseHead(sfx, flow, rho, mu) ==
    <<Asg("v_" \o sfx, Div(Div(flow, X(rho)), Area)),
      Asg("Re_" \o sfx, Reynolds(X("v_" \o sfx), X(rho), X(mu), X("D")))>>

\* the provider handed the absolute roughness
RelativeRoughness_absolute == X("roughness")

\* the argument eD = roughness/D of the call of friction_factor
RelativeRoughness == Div(X("roughness"), X("D"))

\* the rest of the block with a failure of the provider caught and a friction
\* factor of 0.02 used in its place
PhaseTail_fallback(sfx, rho, fd, withdP) ==
    <<Asg("fd_" \o sfx, Const(IF IsErr(fd) THEN Rat(1, 50) ELSE fd))>>
    \o IF withdP
       THEN <<Asg("dP_" \o sfx,
                  Mul(Div(Mul(X("fd_" \o sfx), X("L")), X("D")),
                      Mul(Mul(K(1, 2), X(rho)), Pow(X("v_" \o sfx), N(2)))))>>
       ELSE <<>>

\* the rest of the block with L left out of dP
PhaseTail_without_L(sfx, rho, fd, withdP) ==
    <<Asg("fd_" \o sfx, Const(fd))>>
    \o IF withdP
       THEN <<Asg("dP_" \o sfx,
                  Mul(Div(X("fd_" \o sfx), X("D")),
                      Mul(Mul(K(1, 2), X(rho)), Pow(X("v_" \o sfx), N(2)))))>>
       ELSE <<>>

\* the rest of the block, given the provider's answer fd:
\*   fd = friction_factor(Re=Re, eD=roughness/D)
\*   dP = fd*L/D*(0.5*rho*v**2)          (when the body has this line)
PhaseTail(sfx, rho, fd, withdP) ==
    <<Asg("fd_" \o sfx, Const(fd))>>
    \o IF withdP
       THEN <<Asg("dP_" \o sfx,
                  Mul(Div(Mul(X("fd_" \o sfx), X("L")), X("D")),
                      Mul(Mul(K(1, 2), X(rho)), Pow(X("v_" \o sfx), N(2)))))>>
       ELSE <<>>

\* F, H and E of Friedel (the same three lines in Chen_Friedel)
FriedelFHE ==
    <<Asg("F", Mul(Pow(X("x"), K(78, 100)), Pow(Sub(N(1), X("x")), K(224, 1000)))),
      Asg("H", Mul(Mul(Pow(Div(X("rhol"), X("rhog")), K(91, 100)),
                       Pow(Div(X("mug"), X("mul")), K(19, 100))),
                   Pow(Sub(N(1), Div(X("mug"), X("mul"))), K(7, 10)))),
      Asg("E", Add(Pow(Sub(N(1), X("x")), N(2)),
                   Mul(Pow(X("x"), N(2)),
                       Div(Mul(X("rhol"), X("fd_go")),
                           Mul(X("rhog"), X("fd_lo"))))))>>

\* Q_h, v_h, Fr, We and phi_lo2 of Friedel (the same lines in Chen_Friedel)
FriedelPhi ==
    <<Asg("Q_h", Div(X("m"), X("rho_h"))),
      Asg("v_h", Div(X("Q_h"), Area)),
      Asg("Fr", Froude(X("v_h"), X("D"))),
      Asg("We", Weber(X("v_h"), X("D"), X("rho_h"), X("sigma"))),
      Asg("phi_lo2",
          Add(X("E"),
              Div(Mul(Mul(K(324, 100), X("F")), X("H")),
                  Mul(Pow(X("Fr"), K(454, 10000)), Pow(X("We"), K(35, 1000))))))>>

\* the body of Friedel after its two single-phase blocks
Friedel ==
    FriedelFHE
    \o <<Asg("voidage_h", homogeneous(X("x"), X("rhol"), X("rhog"))),
         Asg("rho_h", Add(Mul(X("rhol"), Sub(N(1), X("voidage_h"))),
                          Mul(X("rhog"), X("voidage_h"))))>>
    \o FriedelPhi
    \o <<Ret(Mul(X("phi_lo2"), X("dP_lo")))>>

\* the clamp test with Frl == 1 left to the formula
GronnerudClamp_strict == CGt(X("Frl"), N(1))

\* the test of Gronnerud that clamps f_Fr
GronnerudClamp == CGe(X("Frl"), N(1))

\* the statements of Gronnerud with log(1. + Frl) in place of log(1./Frl)
Gronnerud_log_of_sum ==
    <<Asg("G", Div(X("m"), Area)),
      Asg("V", Div(X("G"), X("rhol"))),
      Asg("Frl", Froude(X("V"), X("D"))),
      If(GronnerudClamp,
         <<Asg("f_Fr", N(1))>>,
         <<Asg("f_Fr", Add(Pow(X("Frl"), K(3, 10)),
                           Mul(K(55, 10000),
                               Pow(Ln(Add(N(1), X("Frl"))), N(2)))))>>),
      Asg("dP_dL_Fr",
          Mul(X("f_Fr"),
              Add(X("x"),
                  Mul(N(4), Sub(Pow(X("x"), K(18, 10)),
                                Mul(Pow(X("x"), N(10)),
                                    Pow(X("f_Fr"), K(1, 2)))))))),
      Asg("phi_gd",
          Add(N(1),
              Mul(X("dP_dL_Fr"),
                  Sub(Div(Div(X("rhol"), X("rhog")),
                          Pow(Div(X("mul"), X("mug")), K(1, 4))),
                      N(1)))))>>

\* the statements of Gronnerud before its single-phase block
Gronnerud ==
    <<Asg("G", Div(X("m"), Area)),
      Asg("V", Div(X("G"), X("rhol"))),
      Asg("Frl", Froude(X("V"), X("D"))),
      If(GronnerudClamp,
         <<Asg("f_Fr", N(1))>>,
         <<Asg("f_Fr", Add(Pow(X("Frl"), K(3, 10)),
                           Mul(K(55, 10000),
                               Pow(Ln(Div(N(1), X("Frl"))), N(2)))))>>),
      Asg("dP_dL_Fr",
          Mul(X("f_Fr"),
              Add(X("x"),
                  Mul(N(4), Sub(Pow(X("x"), K(18, 10)),
                                Mul(Pow(X("x"), N(10)),
                                    Pow(X("f_Fr"), K(1, 2)))))))),
      Asg("phi_gd",
          Add(N(1),
              Mul(X("dP_dL_Fr"),
                  Sub(Div(Div(X("rhol"), X("rhog")),
                          Pow(Div(X("mul"), X("mug")), K(1, 4))),
                      N(1)))))>>

\* return phi_gd*dP_lo
Gronnerud_return == <<Ret(Mul(X("phi_gd"), X("dP_lo")))>>

\* G_tp = m/(pi/4*D**2); n = 0.25, before the single-phase blocks of
\* Chisholm and of Baroczy_Chisholm
ChisholmHead == <<Asg("G_tp", Div(X("m"), Area)), Asg("n", K(1, 4))>>

\* phi2_ch = 1 + (Gamma**2-1)*(B*x**((2-n)/2.)*(1-x)**((2-n)/2.) + x**(2-n))
\* return phi2_ch*dP_lo
Phi2Ch ==
    <<Asg("phi2_ch",
          Add(N(1),
              Mul(Sub(Pow(X("Gamma"), N(2)), N(1)),
                  Add(Mul(Mul(X("B"),
                              Pow(X("x"), Div(Sub(N(2), X("n")), N(2)))),
                          Pow(Sub(N(1), X("x")), Div(Sub(N(2), X("n")), N(2)))),
                      Pow(X("x"), Sub(N(2), X("n"))))))),
      Ret(Mul(X("phi2_ch"), X("dP_lo")))>>

\* the table of B with G_tp = 1900 put in the band 2400/G_tp
ChisholmB_le1900 ==
    <<If(CLe(X("Gamma"), K(95, 10)),
         <<If(CLe(X("G_tp"), N(500)),
              <<Asg("B", K(48, 10))>>,
              <<If(CLe(X("G_tp"), N(1900)),
                   <<Asg("B", Div(N(2400), X("G_tp")))>>,
                   <<Asg("B", Mul(N(55), Pow(X("G_tp"), K(-1, 2))))>>)>>)>>,
         <<If(CLe(X("Gamma"), N(28)),
              <<If(CLe(X("G_tp"), N(600)),
                   <<Asg("B", Div(Mul(N(520), Pow(X("G_tp"), K(-1, 2))),
                                  X("Gamma")))>>,
                   <<Asg("B", Div(N(21), X("Gamma")))>>)>>,
              <<Asg("B", Div(Mul(N(15000), Pow(X("G_tp"), K(-1, 2))),
                             Pow(X("Gamma"), N(2))))>>)>>)>>

\* the table of B with G_tp = 600 put in the band 21/Gamma
ChisholmB_lt600 ==
    <<If(CLe(X("Gamma"), K(95, 10)),
         <<If(CLe(X("G_tp"), N(500)),
              <<Asg("B", K(48, 10))>>,
              <<If(CLt(X("G_tp"), N(1900)),
                   <<Asg("B", Div(N(2400), X("G_tp")))>>,
                   <<Asg("B", Mul(N(55), Pow(X("G_tp"), K(-1, 2))))>>)>>)>>,
         <<If(CLe(X("Gamma"), N(28)),
              <<If(CLt(X("G_tp"), N(600)),
                   <<Asg("B", Div(Mul(N(520), Pow(X("G_tp"), K(-1, 2))),
                                  X("Gamma")))>>,
                   <<Asg("B", Div(N(21), X("Gamma")))>>)>>,
              <<Asg("B", Div(Mul(N(15000), Pow(X("G_tp"), K(-1, 2))),
                             Pow(X("Gamma"), N(2))))>>)>>)>>

\* the table of B of Chisholm, before the roughness correction
ChisholmB ==
    <<If(CLe(X("Gamma"), K(95, 10)),
         <<If(CLe(X("G_tp"), N(500)),
              <<Asg("B", K(48, 10))>>,
              <<If(CLt(X("G_tp"), N(1900)),
                   <<Asg("B", Div(N(2400), X("G_tp")))>>,
                   <<Asg("B", Mul(N(55), Pow(X("G_tp"), K(-1, 2))))>>)>>)>>,
         <<If(CLe(X("Gamma"), N(28)),
              <<If(CLe(X("G_tp"), N(600)),
                   <<Asg("B", Div(Mul(N(520), Pow(X("G_tp"), K(-1, 2))),
                                  X("Gamma")))>>,
                   <<Asg("B", Div(N(21), X("Gamma")))>>)>>,
              <<Asg("B", Div(Mul(N(15000), Pow(X("G_tp"), K(-1, 2))),
                             Pow(X("Gamma"), N(2))))>>)>>)>>

\* if rough_correction: n, B_ratio and B
ChisholmRough ==
    <<If(CVar("rough_correction"),
         <<Asg("n", Div(Ln(Div(X("fd_lo"), X("fd_go"))),
                        Ln(Div(X("Re_go"), X("Re_lo"))))),
           Asg("B_ratio",
               Pow(Mul(K(1, 2),
                       Add(Add(N(1), Pow(Div(X("mug"), X("mul")), N(2))),
                           Pow(N(10), Div(Mul(N(-600), X("roughness")), X("D"))))),
                   Div(Sub(K(1, 4), X("n")), K(1, 4)))),
           Asg("B", Mul(X("B"), X("B_ratio")))>>,
         <<>>)>>

\* the body of Chisholm after its two single-phase blocks
Chisholm ==
    <<Asg("Gamma", Pow(Div(X("dP_go"), X("dP_lo")), K(1, 2)))>>
    \o ChisholmB \o ChisholmRough \o Phi2Ch

\* the table of B of Baroczy_Chisholm with the G_tp split of Chisholm in its
\* first band
BaroczyB_split ==
    <<If(CLe(X("Gamma"), K(95, 10)),
         <<If(CLe(X("G_tp"), N(500)),
              <<Asg("B", K(48, 10))>>,
              <<Asg("B", Mul(N(55), Pow(X("G_tp"), K(-1, 2))))>>)>>,
         <<If(CLe(X("Gamma"), N(28)),
              <<Asg("B", Div(Mul(N(520), Pow(X("G_tp"), K(-1, 2))),
                             X("Gamma")))>>,
              <<Asg("B", Div(Mul(N(15000), Pow(X("G_tp"), K(-1, 2))),
                             Pow(X("Gamma"), N(2))))>>)>>)>>

\* the table of B of Baroczy_Chisholm
BaroczyB ==
    <<If(CLe(X("Gamma"), K(95, 10)),
         <<Asg("B", Mul(N(55), Pow(X("G_tp"), K(-1, 2))))>>,
         <<If(CLe(X("Gamma"), N(28)),
              <<Asg("B", Div(Mul(N(520), Pow(X("G_tp"), K(-1, 2))),
                             X("Gamma")))>>,
              <<Asg("B", Div(Mul(N(15000), Pow(X("G_tp"), K(-1, 2))),
                             Pow(X("Gamma"), N(2))))>>)>>)>>

\* the body of Baroczy_Chisholm after its two single-phase blocks
Baroczy_Chisholm ==
    <<Asg("Gamma", Pow(Div(X("dP_go"), X("dP_lo")), K(1, 2)))>>
    \o BaroczyB \o Phi2Ch

\* the body of Muller_Steinhagen_Heck with the factor x of G_MSH left out
Muller_Steinhagen_Heck_without_x ==
    <<Asg("G_MSH", Add(X("dP_lo"), Mul(N(2), Sub(X("dP_go"), X("dP_lo"))))),
      Ret(Add(Mul(X("G_MSH"), Pow(Sub(N(1), X("x")), K(1, 3))),
              Mul(X("dP_go"), Pow(X("x"), N(3)))))>>

Muller_Steinhagen_Heck ==
    <<Asg("G_MSH", Add(X("dP_lo"),
                       Mul(Mul(N(2), Sub(X("dP_go"), X("dP_lo"))), X("x")))),
      Ret(Add(Mul(X("G_MSH"), Pow(Sub(N(1), X("x")), K(1, 3))),
              Mul(X("dP_go"), Pow(X("x"), N(3)))))>>

Lombardi_Pedrocchi ==
    <<Asg("voidage_h", homogeneous(X("x"), X("rhol"), X("rhog"))),
      Asg("rho_h", Add(Mul(X("rhol"), Sub(N(1), X("voidage_h"))),
                       Mul(X("rhog"), X("voidage_h")))),
      Asg("G_tp", Div(X("m"), Area)),
      Ret(Div(Mul(Mul(Mul(K(83, 100), Pow(X("G_tp"), K(14, 10))),
                      Pow(X("sigma"), K(4, 10))),
                  X("L")),
              Mul(Pow(X("D"), K(12, 10)), Pow(X("rho_h"), K(866, 1000)))))>>

\* the endpoint tests with the x == 0 case left out
Theissing_ends_without_x0 ==
    <<If(CEq(X("x"), N(1)), <<Ret(X("dP_go"))>>, <<>>)>>

\* if x == 0: return dP_lo  elif x == 1: return dP_go
Theissing_ends ==
    <<If(CEq(X("x"), N(0)),
         <<Ret(X("dP_lo"))>>,
         <<If(CEq(X("x"), N(1)), <<Ret(X("dP_go"))>>, <<>>)>>)>>

\* the model of Theissing, after its four single-phase blocks
Theissing ==
    <<Asg("n1", Div(Ln(Div(X("dP_l"), X("dP_lo"))), Ln(Sub(N(1), X("x"))))),
      Asg("n2", Div(Ln(Div(X("dP_g"), X("dP_go"))), Ln(X("x")))),
      Asg("n", Div(Add(X("n1"),
                       Mul(X("n2"), Pow(Div(X("dP_g"), X("dP_l")), K(1, 10)))),
                   Add(N(1), Pow(Div(X("dP_g"), X("dP_l")), K(1, 10))))),
      Asg("epsilon",
          Sub(N(3),
              Mul(N(2),
                  Pow(Div(Mul(N(2), Pow(Div(X("rhol"), X("rhog")), K(1, 2))),
                          Add(N(1), Div(X("rhol"), X("rhog")))),
                      Div(K(7, 10), X("n")))))),
      Asg("dP",
          Pow(Add(Mul(Pow(X("dP_lo"), Div(N(1), Mul(X("n"), X("epsilon")))),
                      Pow(Sub(N(1), X("x")), Div(N(1), X("epsilon")))),
                  Mul(Pow(X("dP_go"), Div(N(1), Mul(X("n"), X("epsilon")))),
                      Pow(X("x"), Div(N(1), X("epsilon"))))),
              Mul(X("n"), X("epsilon")))),
      Ret(X("dP"))>>

Jung_Radermacher ==
    <<Asg("Xtt", Lockhart_Martinelli_Xtt(X("x"), X("rhol"), X("rhog"),
                                         X("mul"), X("mug"))),
      Asg("phi_tp2", Mul(Mul(K(1282, 100), Pow(X("Xtt"), K(-147, 100))),
                         Pow(Sub(N(1), X("x")), K(18, 10)))),
      Ret(Mul(X("phi_tp2"), X("dP_lo")))>>

Tran ==
    <<Asg("Gamma2", Div(X("dP_go"), X("dP_lo"))),
      Asg("Co", Confinement(X("D"), X("rhol"), X("rhog"), X("sigma"))),
      Asg("phi_lo2",
          Add(N(1),
              Mul(Sub(Mul(K(43, 10), X("Gamma2")), N(1)),
                  Add(Mul(Mul(X("Co"), Pow(X("x"), K(875, 1000))),
                          Pow(Sub(N(1), X("x")), K(875, 1000))),
                      Pow(X("x"), K(175, 100)))))),
      Ret(Mul(X("dP_lo"), X("phi_lo2")))>>

\* the factor of exp(-Bo) in the body of Chen_Friedel
ChenExpCoef == K(5, 10)

\* Omega = 0.0333*Re_lo**0.45/(Re_g**0.09*(1 + c*exp(-Bo)))
OmegaLowBo(c) ==
    Div(Mul(K(333, 10000), Pow(X("Re_lo"), K(45, 100))),
        Mul(Pow(X("Re_g"), K(9, 100)),
            Add(N(1), Mul(c, Ex(Neg(X("Bo")))))))

\* Omega = We**0.2/(2.5 + 0.06*Bo)
OmegaHighBo ==
    Div(Pow(X("We"), K(2, 10)), Add(K(25, 10), Mul(K(6, 100), X("Bo"))))

\* the homogeneous density weighted by mass fractions: x*rhog + (1-x)*rhol
ChenRhoH_mass_weighted ==
    Add(Mul(X("x"), X("rhog")), Mul(Sub(N(1), X("x")), X("rhol")))

\* rho_h = 1./(x/rhog + (1-x)/rhol)
ChenRhoH ==
    Div(N(1), Add(Div(X("x"), X("rhog")), Div(Sub(N(1), X("x")), X("rhol"))))

\* the test of Bo with Bo == 2.5 put in the Reynolds branch
ChenLowBo_inclusive == CLe(X("Bo"), K(25, 10))

\* Bo < 2.5, the test that selects Omega
ChenLowBo == CLt(X("Bo"), K(25, 10))

\* the body of Chen_Friedel after its two single-phase blocks
Chen_Friedel ==
    FriedelFHE
    \o <<Asg("rho_h", ChenRhoH)>>
    \o FriedelPhi
    \o <<Asg("dP", Mul(X("phi_lo2"), X("dP_lo"))),
         Asg("Bo", Div(Bond(X("rhol"), X("rhog"), X("sigma"), X("D")), N(4))),
         If(ChenLowBo,
            <<Asg("v_g", Div(Div(Mul(X("m"), X("x")), X("rhog")), Area)),
              Asg("Re_g", Reynolds(X("v_g"), X("rhog"), X("mug"), X("D"))),
              Asg("Omega", OmegaLowBo(ChenExpCoef))>>,
            <<Asg("Omega", OmegaHighBo)>>),
         Ret(Mul(X("dP"), X("Omega")))>>

Zhang_Webb ==
    <<Asg("Pr", Div(X("P"), X("Pc"))),
      Asg("phi_lo2",
          Add(Add(Pow(Sub(N(1), X("x")), N(2)),
                  Div(Mul(K(287, 100), Pow(X("x"), N(2))), X("Pr"))),
              Mul(Mul(Mul(K(168, 100), Pow(X("x"), K(8, 10))),
                      Pow(Sub(N(1), X("x")), K(1, 4))),
                  Pow(X("Pr"), K(-164, 100))))),
      Ret(Mul(X("dP_lo"), X("phi_lo2")))>>

(***************************************************************************)
(* The calls made.  A call names the arguments it passes (given) and their *)
(* values (val).  Mass flow rates are drawn as a mass flux G times the     *)
(* cross-section pi/4*D**2, so that G_tp meets its thresholds exactly.     *)
(***************************************************************************)
\* x ranges over the multiples of 1/XDen in [0, 1]
XDen == 2

\* a second call scales L by a factor in 2..MaxScale
MaxScale == 2

XSet == {Rat(i, XDen) : i \in 0..XDen}

\* the answers of the friction-factor provider
FdSet == {Rat(1, 50), Rat(1, 25)}

\* the provider raising instead of answering (no convergence)
UpstreamError == Raise("UpstreamError")

AllNames ==
    {"m", "x", "rhol", "rhog", "mul", "mug", "sigma", "D", "roughness", "L",
     "P", "Pc", "rough_correction"}

\* G*(pi/4*D**2) for rationals G and D
MassFlow(G, D) ==
    VScale(RMul(RMul(RatOf(G), <<1, 4>>), RMul(RatOf(D), RatOf(D))), Pi)

BaseG == Num(1000)

BaseD == Rat(1, 10)

BaseVal ==
    [n \in AllNames |->
        CASE n = "m" -> MassFlow(BaseG, BaseD)
          [] n = "x" -> Rat(1, 2)
          [] n = "rhol" -> Num(4)
          [] n = "rhog" -> One
          [] n = "mul" -> Rat(1, 100)
          [] n = "mug" -> Rat(1, 400)
          [] n = "sigma" -> Rat(1, 20)
          [] n = "D" -> BaseD
          [] n = "roughness" -> Zero
          [] n = "L" -> One
          [] n = "P" -> One
          [] n = "Pc" -> Num(20)
          [] n = "rough_correction" -> FALSE]

\* the call of f that passes every parameter but rough_correction
BaseCall(f) ==
    [val |-> BaseVal, given |-> Params(f) \ {"rough_correction"}]

Vary(S, name, values) == {[c EXCEPT !.val[name] = w] : c \in S, w \in values}

\* vary the mass flux (the diameter is set before)
VaryG(S, Gs) ==
    {[c EXCEPT !.val["m"] = MassFlow(G, c.val["D"])] : c \in S, G \in Gs}

\* roughness and L: a smooth pipe of unit length, or a rough and longer one
VaryRL(S) ==
    S \cup {[c EXCEPT !.val["roughness"] = VScale(<<1, 600>>, c.val["D"]),
                      !.val["L"] = Rat(5, 2)] : c \in S}

WithFlag(S) ==
    S \cup {[c EXCEPT !.val["rough_correction"] = TRUE,
                      !.given = @ \cup {"rough_correction"}] : c \in S}

\* liquid densities that put Gamma below, at and above 9.5 and 28
GammaRhol == {Num(4), Rat(361, 4), Num(400), Num(784), Num(900)}

\* mass fluxes below, at and above the thresholds 500, 600 and 1900 of G_tp
ChisholmG == {Num(400), Num(500), Num(600), Num(1000), Num(1900), Num(2000)}

\* surface tensions that put Bo = g*(rhol-rhog)*D**2/(4*sigma) below, at and
\* above 2.5
ChenSigma == {Rat(2943, 50000), Rat(2943, 100000), Rat(2943, 1000000)}

\* the calls of f at the base point, for each x
AtEachX(f) == Vary({BaseCall(f)}, "x", XSet)

\* the calls of f at the base point, for one x inside (0, 1)
AtOneX(f) == Vary({BaseCall(f)}, "x", {Rat(1, XDen)})

\* the Chisholm pair is called with D = 1
UnitD(S) == VaryG(Vary(S, "D", {One}), {BaseG})

\* calls outside the domain of the correlations: a negative length, a quality
\* above 1, a zero liquid density
InvalidCalls(S) ==
    Vary(S, "L", {Num(-1)}) \cup Vary(S, "x", {Num(2)})
    \cup Vary(S, "rhol", {Zero})

Inputs(f) ==
    CASE f = "Chisholm" ->
           VaryG(Vary(UnitD(AtOneX(f)), "rhol", GammaRhol), ChisholmG)
           \cup WithFlag(VaryRL(UnitD(AtEachX(f))))
      [] f = "Baroczy_Chisholm" ->
           Vary(UnitD(AtOneX(f)), "rhol", GammaRhol)
           \cup VaryRL(UnitD(AtEachX(f)))
      [] f = "Gronnerud" ->
           VaryRL(VaryG(Vary(Vary(AtEachX(f), "D", {Rat(100, 981)}),
                             "rhol", {Num(400)}),
                        {Num(200), Num(400), Num(800)}))
      [] f = "Friedel" ->
           VaryRL(Vary(AtEachX(f), "mug", {Rat(1, 400), Rat(1, 50)}))
      [] f = "Chen_Friedel" ->
           VaryRL(VaryG(Vary(AtEachX(f), "sigma", ChenSigma), {Num(100)}))
      [] f = "Theissing" -> AtEachX(f)
      [] f \in {"Muller_Steinhagen_Heck", "Zhang_Webb"} ->
           VaryRL(AtEachX(f)) \cup InvalidCalls(AtOneX(f))
      [] OTHER -> VaryRL(AtEachX(f))

\* a call of f with a gas sixteen times as dense as the liquid and as viscous
\* as it, at x = 7/8
DenseGas(f) ==
    Vary(Vary(Vary(Vary({BaseCall(f)}, "x", {Rat(7, 8)}), "rhol", {One}),
              "rhog", {Num(16)}), "mug", {BaseVal["mul"]})

\* a smaller set of calls: smooth pipes of unit length, at each x
FewInputs(f) ==
    CASE f \in {"Chisholm", "Baroczy_Chisholm"} -> UnitD(AtEachX(f))
      [] f \in {"Gronnerud", "Chen_Friedel"} ->
           {c \in Inputs(f) : c.val["L"] = One}
      [] f = "Muller_Steinhagen_Heck" -> AtEachX(f) \cup DenseGas(f)
      [] OTHER -> AtEachX(f)

Companion(f) ==
    CASE f = "Friedel" -> {"Chen_Friedel"}
      [] f = "Chen_Friedel" -> {"Friedel"}
      [] f = "Chisholm" -> {"Baroczy_Chisholm"}
      [] f = "Baroczy_Chisholm" -> {"Chisholm"}
      [] OTHER -> {}

\* the calls that follow the call c of f: f with L scaled, f with roughness
\* and L left out, and a companion correlation with the same arguments
Scaled(f, c) ==
    {<<f, [c EXCEPT !.val["L"] = VScale(<<k, 1>>, @)]>> : k \in 2..MaxScale}

Omitted(f, c) == {<<f, [c EXCEPT !.given = @ \ {"roughness", "L"}]>>}

Doubled(f, c) == {<<f, [c EXCEPT !.val["m"] = VScale(<<2, 1>>, @)]>>}

Companions(f, c) ==
    {<<h, [c EXCEPT !.given = @ \cap Params(h)]>> : h \in Companion(f)}

VARIABLES
    fn,     \* the correlation being called ("" before the first call)
    args,   \* the call: the arguments passed and their values
    pc,     \* the index in Flow(fn) of the next block
    fr,     \* its frame: locals, exception raised, value returned
    log,    \* the calls of friction_factor it made, as <<Re, eD>>
    tab,    \* the answers the provider has given, by <<Re, eD>>
    prev    \* the call completed before this one (fn = "" when none)

vars == <<fn, args, pc, fr, log, tab, prev>>

\* a binding that leaves the locals of the call before in place, as if they
\* were module-level names
Bind_over_old_locals(f, c) ==
    IF c.given \subseteq Params(f) /\ (Params(f) \ Defaults(f)) \subseteq c.given
    THEN Frame([n \in Params(f) |->
                   IF n \in c.given THEN c.val[n] ELSE DefaultOf(n)] @@ fr.v)
    ELSE [Frame(<<>>) EXCEPT !.exc = "TypeError"]

\* Python's binding of the arguments of a call of f
Bind(f, c) ==
    IF c.given \subseteq Params(f) /\ (Params(f) \ Defaults(f)) \subseteq c.given
    THEN Frame([n \in Params(f) |->
                   IF n \in c.given THEN c.val[n] ELSE DefaultOf(n)])
    ELSE [Frame(<<>>) EXCEPT !.exc = "TypeError"]

\* the statements before the first block
Prologue(f) ==
    IF f \in {"Chisholm", "Baroczy_Chisholm"} THEN ChisholmHead ELSE <<>>

NoCall == [fn |-> "", args |-> <<>>, fr |-> Frame(<<>>), log |-> <<>>]

Init ==
    /\ fn = ""
    /\ args = <<>>
    /\ pc = 0
    /\ fr = Frame(<<>>)
    /\ log = <<>>
    /\ tab = [k \in {} |-> Zero]
    /\ prev = NoCall

Returned == fr.out # <<>>

Raised == fr.exc # ""

Running == fn # "" /\ ~Returned /\ ~Raised

Start(f, c) ==
    /\ fn' = f
    /\ args' = c
    /\ pc' = 1
    /\ fr' = Exec(Prologue(f), Bind(f, c))
    /\ log' = <<>>
    /\ tab' = tab

\* the first call
Invoke ==
    /\ fn = ""
    /\ \E f \in Correlations : \E c \in Inputs(f) : Start(f, c)
    /\ prev' = prev

\* a call that follows the first completed call
Follow(S) ==
    /\ \E fc \in S : Start(fc[1], fc[2])
    /\ prev' = [fn |-> fn, args |-> args, fr |-> fr, log |-> log]

Completed == fn # "" /\ ~Running

\* the same call once more
InvokeAgain ==
    /\ Completed /\ prev.fn = ""
    /\ Follow({<<fn, args>>})

\* the same call with a longer pipe
InvokeScaled ==
    /\ Completed /\ prev.fn = "" /\ "L" \in args.given
    /\ Follow(Scaled(fn, args))

\* the same call with roughness and L left to their defaults
InvokeOmitted ==
    /\ Completed /\ prev.fn = ""
    /\ Follow(Omitted(fn, args))

\* the same call with twice the mass flow, for three of the correlations
InvokeDoubled ==
    /\ Completed /\ prev.fn = ""
    /\ fn \in {"Muller_Steinhagen_Heck", "Chisholm", "Gronnerud"}
    /\ Follow(Doubled(fn, args))

\* the companion correlation on the same arguments
InvokeCompanion ==
    /\ Completed /\ prev.fn = ""
    /\ Follow(Companions(fn, args))

Block(b) == Running /\ Flow(fn)[pc] = b

\* the statements of a single-phase block, with the provider's answer or
\* failure, which is the one it gave before for the same <<Re, eD>>; a
\* failure is raised by the assignment of fd
Phase(b, flow, rho, mu, withdP) ==
    \E pre \in {Exec(PhaseHead(b, flow, rho, mu), fr)} :
    \E eD \in {Eval(RelativeRoughness, fr.v)} :
       IF pre.exc # "" \/ IsErr(eD)
       THEN /\ fr' = IF pre.exc # "" THEN pre ELSE [pre EXCEPT !.exc = eD.err]
            /\ UNCHANGED <<pc, log, tab>>
       ELSE \E key \in {<<pre.v["Re_" \o b], eD>>} :
            \E fd \in IF key \in DOMAIN tab THEN {tab[key]}
                      ELSE FdSet \cup {UpstreamError} :
               /\ fr' = Exec(PhaseTail(b, rho, fd, withdP), pre)
               /\ pc' = pc + 1
               /\ log' = Append(log, key)
               /\ tab' = (key :> fd) @@ tab

\* liquid-only flow: the whole mass flow as liquid
LiquidOnly ==
    /\ Block("lo")
    /\ Phase("lo", X("m"), "rhol", "mul", TRUE)
    /\ UNCHANGED <<fn, args, prev>>

\* gas-only flow; Friedel and Chen_Friedel compute no dP_go
GasOnly ==
    /\ Block("go")
    /\ Phase("go", X("m"), "rhog", "mug", fn \notin {"Friedel", "Chen_Friedel"})
    /\ UNCHANGED <<fn, args, prev>>

\* actual liquid flow (Theissing)
ActualLiquid ==
    /\ Block("l")
    /\ Phase("l", Mul(X("m"), Sub(N(1), X("x"))), "rhol", "mul", TRUE)
    /\ UNCHANGED <<fn, args, prev>>

\* actual gas flow (Theissing)
ActualGas ==
    /\ Block("g")
    /\ Phase("g", Mul(X("m"), X("x")), "rhog", "mug", TRUE)
    /\ UNCHANGED <<fn, args, prev>>

\* a block that calls no friction_factor
Run(prog) ==
    /\ fr' = Exec(prog, fr)
    /\ pc' = pc + 1
    /\ UNCHANGED <<fn, args, log, tab, prev>>

FriedelBody ==
    /\ Block("Friedel")
    /\ Run(Friedel)

GronnerudHead ==
    /\ Block("Gronnerud")
    /\ Run(Gronnerud)

GronnerudReturn ==
    /\ Block("Gronnerud_return")
    /\ Run(Gronnerud_return)

ChisholmBody ==
    /\ Block("Chisholm")
    /\ Run(Chisholm)

BaroczyChisholmBody ==
    /\ Block("Baroczy_Chisholm")
    /\ Run(Baroczy_Chisholm)

MullerSteinhagenHeckBody ==
    /\ Block("Muller_Steinhagen_Heck")
    /\ Run(Muller_Steinhagen_Heck)

LombardiPedrocchiBody ==
    /\ Block("Lombardi_Pedrocchi")
    /\ Run(Lombardi_Pedrocchi)

TheissingEnds ==
    /\ Block("Theissing_ends")
    /\ Run(Theissing_ends)

TheissingBody ==
    /\ Block("Theissing")
    /\ Run(Theissing)

JungRadermacherBody ==
    /\ Block("Jung_Radermacher")
    /\ Run(Jung_Radermacher)

TranBody ==
    /\ Block("Tran")
    /\ Run(Tran)

ChenFriedelBody ==
    /\ Block("Chen_Friedel")
    /\ Run(Chen_Friedel)

ZhangWebbBody ==
    /\ Block("Zhang_Webb")
    /\ Run(Zhang_Webb)

Next ==
    \/ Invoke
    \/ InvokeScaled
    \/ InvokeOmitted
    \/ InvokeCompanion
    \/ LiquidOnly
    \/ GasOnly
    \/ ActualLiquid
    \/ ActualGas
    \/ FriedelBody
    \/ GronnerudHead
    \/ GronnerudReturn
    \/ ChisholmBody
    \/ BaroczyChisholmBody
    \/ MullerSteinhagenHeckBody
    \/ LombardiPedrocchiBody
    \/ TheissingEnds
    \/ TheissingBody
    \/ JungRadermacherBody
    \/ TranBody
    \/ ChenFriedelBody
    \/ ZhangWebbBody

Spec == Init /\ [][Next]_vars

\* the blocks of the bodies
Step ==
    \/ LiquidOnly
    \/ GasOnly
    \/ ActualLiquid
    \/ ActualGas
    \/ FriedelBody
    \/ GronnerudHead
    \/ GronnerudReturn
    \/ ChisholmBody
    \/ BaroczyChisholmBody
    \/ MullerSteinhagenHeckBody
    \/ LombardiPedrocchiBody
    \/ TheissingEnds
    \/ TheissingBody
    \/ JungRadermacherBody
    \/ TranBody
    \/ ChenFriedelBody
    \/ ZhangWebbBody

\* a first call of the smaller set of calls
InvokeFew ==
    /\ fn = ""
    /\ \E f \in Correlations : \E c \in FewInputs(f) : Start(f, c)
    /\ prev' = prev

\* calls followed by the same call once more, by the same call with twice the
\* mass flow, or by the companion correlation on the same arguments
NextRepeated ==
    \/ InvokeFew
    \/ InvokeAgain
    \/ InvokeDoubled
    \/ InvokeCompanion
    \/ Step

SpecRepeated == Init /\ [][NextRepeated]_vars

\* the correlations called at the same time
Interleaved == {"Chisholm", "Theissing"}

\* their calls: at the liquid-only end and inside (0, 1)
InterleavedInputs(f) == Vary(FewInputs(f), "x", {Zero, Rat(1, 2)})

\* the first of two calls made at the same time
InvokeOne ==
    /\ fn = ""
    /\ \E f \in Interleaved : \E c \in InterleavedInputs(f) : Start(f, c)
    /\ prev' = prev

\* the call in progress, as it is set aside while the other call runs
Thread == [fn |-> fn, args |-> args, fr |-> fr, log |-> log, pc |-> pc]

\* a second call, begun at any point of the first, which is set aside
InvokeOther ==
    /\ fn # "" /\ prev.fn = ""
    /\ \E f \in Interleaved : \E c \in InterleavedInputs(f) : Start(f, c)
    /\ prev' = Thread

\* a switch that hands the frame of the call set aside to the other call
Switch_shared_locals ==
    /\ prev.fn # ""
    /\ fn' = prev.fn
    /\ args' = prev.args
    /\ pc' = prev.pc
    /\ fr' = [prev.fr EXCEPT !.v = fr.v @@ prev.fr.v]
    /\ log' = prev.log
    /\ prev' = Thread
    /\ tab' = tab

\* the scheduler sets the running call aside and resumes the other one: each
\* call has its own frame, and the provider's answers are common to both
Switch ==
    /\ prev.fn # ""
    /\ fn' = prev.fn
    /\ args' = prev.args
    /\ pc' = prev.pc
    /\ fr' = prev.fr
    /\ log' = prev.log
    /\ prev' = Thread
    /\ tab' = tab

\* two calls of Chisholm and Theissing, their blocks interleaved in any order
NextInterleaved ==
    \/ InvokeOne
    \/ InvokeOther
    \/ Switch
    \/ LiquidOnly
    \/ GasOnly
    \/ ActualLiquid
    \/ ActualGas
    \/ ChisholmBody
    \/ TheissingEnds
    \/ TheissingBody

SpecInterleaved == Init /\ [][NextInterleaved]_vars

\* every branch condition met is decided by the normal forms
AllDecided == fr.exc # "Undecided"

(***************************************************************************)
(* Properties.                                                             *)
(***************************************************************************)
\* the square root of a value
Sqrt(w) == VPow(w, Rat(1, 2))

\* the locals of the current call that are assigned
Locals == DOMAIN fr.v

\* C1: Theissing called with x == 0 returns exactly dP_lo and called with
\* x == 1 returns exactly dP_go, and in both cases it returns straight after
\* the two single-phase blocks: no logarithm has been evaluated, no actual
\* liquid or gas flow quantity and none of n1, n2, n, epsilon is assigned,
\* and friction_factor was called twice only.
C1_TheissingEndpoints ==
    (fn = "Theissing" /\ pc > 3 /\ fr.exc = "" /\ args.val["x"] \in {Zero, One})
    => /\ Returned
       /\ fr.out = <<IF args.val["x"] = Zero THEN fr.v["dP_lo"]
                     ELSE fr.v["dP_go"]>>
       /\ fr.math = {}
       /\ Len(log) = 2
       /\ Locals \cap {"v_l", "Re_l", "fd_l", "dP_l", "v_g", "Re_g", "fd_g",
                       "dP_g", "n1", "n2", "n", "epsilon", "dP"} = {}

\* Theissing has returned dP_go at x == 1, where dP_go differs from dP_lo
C1_Witness ==
    /\ fn = "Theissing" /\ Returned /\ args.val["x"] = One
    /\ fr.out = <<fr.v["dP_go"]>>
    /\ fr.v["dP_go"] # fr.v["dP_lo"]

\* C2: in Chisholm without the roughness correction, B is the entry of the
\* table for Gamma and G_tp: Gamma <= 9.5: 4.8 for G_tp <= 500, 2400/G_tp for
\* 500 < G_tp < 1900, 55/sqrt(G_tp) for G_tp >= 1900; 9.5 < Gamma <= 28:
\* 520/(Gamma*sqrt(G_tp)) for G_tp <= 600, 21/Gamma above; Gamma > 28:
\* 15000/(Gamma^2*sqrt(G_tp)).
C2_ChisholmTable ==
    (fn = "Chisholm" /\ "B" \in Locals /\ ~fr.v["rough_correction"])
    => LET Gam == fr.v["Gamma"]
           G == fr.v["G_tp"]
       IN
       IF Le(Gam, Rat(19, 2))
       THEN IF Le(G, Num(500)) THEN fr.v["B"] = Rat(24, 5)
            ELSE IF Lt(G, Num(1900)) THEN fr.v["B"] = VDiv(Num(2400), G)
            ELSE fr.v["B"] = VDiv(Num(55), Sqrt(G))
       ELSE IF Le(Gam, Num(28))
       THEN IF Le(G, Num(600))
            THEN fr.v["B"] = VDiv(Num(520), VMul(Gam, Sqrt(G)))
            ELSE fr.v["B"] = VDiv(Num(21), Gam)
       ELSE fr.v["B"] = VDiv(Num(15000), VMul(VMul(Gam, Gam), Sqrt(G)))

\* Chisholm has returned with Gamma exactly 9.5 and G_tp exactly 1900
C2_Witness ==
    /\ fn = "Chisholm" /\ Returned /\ ~fr.v["rough_correction"]
    /\ fr.v["Gamma"] = Rat(19, 2)
    /\ fr.v["G_tp"] = Num(1900)
    /\ fr.v["B"] = VDiv(Num(55), Sqrt(Num(1900)))

\* C3: in Baroczy_Chisholm, B is 55/sqrt(G_tp) for Gamma <= 9.5,
\* 520/(Gamma*sqrt(G_tp)) for 9.5 < Gamma <= 28 and 15000/(Gamma^2*sqrt(G_tp))
\* above, whatever G_tp is; no roughness correction is made (no B_ratio, also
\* in a rough pipe) and n is 0.25.
C3_BaroczyTable ==
    (fn = "Baroczy_Chisholm" /\ "B" \in Locals)
    => LET Gam == fr.v["Gamma"]
           G == fr.v["G_tp"]
       IN  /\ fr.v["B"] =
                 IF Le(Gam, Rat(19, 2)) THEN VDiv(Num(55), Sqrt(G))
                 ELSE IF Le(Gam, Num(28))
                 THEN VDiv(Num(520), VMul(Gam, Sqrt(G)))
                 ELSE VDiv(Num(15000), VMul(VMul(Gam, Gam), Sqrt(G)))
           /\ fr.v["n"] = Rat(1, 4)
           /\ "B_ratio" \notin Locals

\* Baroczy_Chisholm has returned with Gamma <= 9.5 and G_tp = 400, where
\* Chisholm's table gives 4.8, with B = 55/sqrt(400)
C3_Witness ==
    /\ fn = "Baroczy_Chisholm" /\ Returned
    /\ Le(fr.v["Gamma"], Rat(19, 2))
    /\ fr.v["G_tp"] = Num(400)
    /\ fr.v["B"] = Rat(11, 4)

OmegaReynolds(c) ==
    VDiv(VMul(Rat(333, 10000), VPow(fr.v["Re_lo"], Rat(9, 20))),
         VMul(VPow(fr.v["Re_g"], Rat(9, 100)),
              VAdd(One, VMul(c, VExp(VNeg(fr.v["Bo"]))))))

\* C5: in Chen_Friedel, Bo is a quarter of the Bond number of the provider;
\* when Bo < 2.5 the gas velocity and Reynolds number at flow m*x are
\* computed and Omega has the Reynolds form; when Bo >= 2.5, Bo == 2.5
\* included, Omega is We^0.2/(2.5 + 0.06*Bo) and neither v_g nor Re_g is
\* computed.
C5_ChenFriedelBranches ==
    (fn = "Chen_Friedel" /\ "Bo" \in Locals)
    => LET Bo == fr.v["Bo"]
           a == args.val
           A == VScale(<<1, 4>>, VMul(Pi, VMul(a["D"], a["D"])))
           v_g == VDiv(VDiv(VMul(a["m"], a["x"]), a["rhog"]), A)
       IN  /\ Bo = VScale(<<1, 4>>,
                          Eval(Bond(X("rhol"), X("rhog"), X("sigma"), X("D")),
                               a))
           /\ IF Lt(Bo, Rat(5, 2))
              THEN /\ {"v_g", "Re_g"} \subseteq Locals
                   /\ fr.v["v_g"] = v_g
                   /\ fr.v["Re_g"] =
                          VDiv(VMul(VMul(a["rhog"], v_g), a["D"]), a["mug"])
                   /\ "Omega" \in Locals
                      => \E c \in {Rat(2, 5), Rat(1, 2)} :
                             fr.v["Omega"] = OmegaReynolds(c)
              ELSE /\ Locals \cap {"v_g", "Re_g"} = {}
                   /\ "Omega" \in Locals
                   /\ fr.v["Omega"] =
                          VDiv(VPow(fr.v["We"], Rat(1, 5)),
                               VAdd(Rat(5, 2), VMul(Rat(3, 50), Bo)))

\* Chen_Friedel has returned with Bo exactly 2.5, by the Weber form
C5_Witness ==
    /\ fn = "Chen_Friedel" /\ Returned
    /\ fr.v["Bo"] = Rat(5, 2)
    /\ "Re_g" \notin Locals

\* C6: in the Bo < 2.5 branch of Chen_Friedel the factor of exp(-Bo) in
\* Omega is 0.4: Omega = 0.0333*Re_lo^0.45/(Re_g^0.09*(1 + 0.4*exp(-Bo))).
C6_OmegaCoefficient ==
    (fn = "Chen_Friedel" /\ "Omega" \in Locals /\ Lt(fr.v["Bo"], Rat(5, 2)))
    => fr.v["Omega"] = OmegaReynolds(Rat(2, 5))

\* C7: when Friedel and Chen_Friedel both return on the same arguments, the
\* value of Chen_Friedel is that of Friedel times Omega, and dP_lo, E, F, H,
\* the homogeneous density, Fr, We and phi_lo2 have the same values in both.
C7_ChenIsFriedelTimesOmega ==
    (/\ {fn, prev.fn} = {"Friedel", "Chen_Friedel"}
     /\ args = prev.args
     /\ Returned /\ prev.fr.out # <<>>)
    => LET chen == IF fn = "Chen_Friedel" THEN fr ELSE prev.fr
           friedel == IF fn = "Friedel" THEN fr ELSE prev.fr
       IN  /\ chen.out[1] = VMul(friedel.out[1], chen.v["Omega"])
           /\ \A n \in {"dP_lo", "E", "F", "H", "rho_h", "Fr", "We", "phi_lo2"} :
                 chen.v[n] = friedel.v[n]

\* Chen_Friedel has returned after Friedel on the same arguments, inside
\* (0, 1), with Omega different from 1
C7_Witness ==
    /\ fn = "Chen_Friedel" /\ prev.fn = "Friedel" /\ args = prev.args
    /\ Returned /\ prev.fr.out # <<>>
    /\ args.val["x"] \notin {Zero, One}
    /\ fr.v["Omega"] # One
    /\ fr.out # prev.fr.out

\* the current call was ended by a failure of friction_factor
ProviderFailed == fr.exc = "UpstreamError"

\* C8: Friedel, Chisholm without the roughness correction, Baroczy_Chisholm
\* and Muller_Steinhagen_Heck return dP_lo when x = 0 and the gas-only drop
\* dP_go = fd_go*L/D*(0.5*rhog*v_go^2) when x = 1 (friction_factor having
\* answered).
C8_EndpointsReduce ==
    (/\ fn \in {"Friedel", "Chisholm", "Baroczy_Chisholm",
                "Muller_Steinhagen_Heck"}
     /\ Completed /\ ~ProviderFailed
     /\ args.val["x"] \in {Zero, One}
     /\ ~(fn = "Chisholm" /\ fr.v["rough_correction"]))
    => /\ Returned
       /\ fr.out[1] =
             IF args.val["x"] = Zero THEN fr.v["dP_lo"]
             ELSE VMul(VDiv(VMul(fr.v["fd_go"], fr.v["L"]), fr.v["D"]),
                       VMul(VScale(<<1, 2>>, fr.v["rhog"]),
                            VMul(fr.v["v_go"], fr.v["v_go"])))

\* Friedel has returned the gas-only drop at x = 1 in a rough pipe, and it
\* differs from dP_lo
C8_Witness ==
    /\ fn = "Friedel" /\ Returned /\ args.val["x"] = One
    /\ ~IsZero(fr.v["roughness"])
    /\ fr.out # <<fr.v["dP_lo"]>>

\* the arguments of the current call are in the domain of the correlations:
\* m, densities, viscosities, surface tension, D, L, P and Pc positive,
\* roughness >= 0 and 0 <= x <= 1
InDomain(n, w) ==
    CASE n = "rough_correction" -> TRUE
      [] n = "roughness" -> IsZero(w) \/ Positive(w)
      [] n = "x" -> Le(Zero, w) /\ Le(w, One)
      [] OTHER -> Positive(w)

\* the value the current call binds to its parameter n
Bound(n) == IF n \in args.given THEN args.val[n] ELSE DefaultOf(n)

\* the current call passes every required argument
WellCalled ==
    /\ fn # ""
    /\ args.given \subseteq Params(fn)
    /\ (Params(fn) \ Defaults(fn)) \subseteq args.given

ValidArgs == WellCalled /\ \A n \in Params(fn) : InDomain(n, Bound(n))

\* some argument of the current call is outside the domain
InvalidArgs == WellCalled /\ \E n \in Params(fn) : ~InDomain(n, Bound(n))

\* the current call repeats the one before with another L
OnlyLDiffers ==
    /\ fn # "" /\ prev.fn = fn
    /\ args.given = prev.args.given
    /\ args.val # prev.args.val
    /\ args.val = [prev.args.val EXCEPT !["L"] = args.val["L"]]

\* C9: of two calls of a correlation that differ only in L, the second with
\* L = k*L0, the second returns k times what the first returned.
C9_LinearInL ==
    (OnlyLDiffers /\ Completed /\ prev.fr.out # <<>>)
    => /\ Returned
       /\ fr.out[1] = VMul(VDiv(args.val["L"], prev.args.val["L"]),
                           prev.fr.out[1])

\* Theissing has returned inside (0, 1) after the same call with half the L
C9_Witness ==
    /\ fn = "Theissing" /\ OnlyLDiffers /\ Returned /\ prev.fr.out # <<>>
    /\ args.val["x"] \notin {Zero, One}
    /\ args.val["L"] = VScale(<<2, 1>>, prev.args.val["L"])
    /\ fr.out # prev.fr.out

\* the current call repeats the one before, which passed roughness = 0 and
\* L = 1, with roughness and L left out
DefaultsOmitted ==
    /\ fn # "" /\ prev.fn = fn
    /\ args.val = prev.args.val
    /\ args.given # prev.args.given
    /\ args.given = prev.args.given \ {"roughness", "L"}
    /\ IsZero(args.val["roughness"])
    /\ args.val["L"] = One

\* C10: every correlation can be called with roughness and L left out, and
\* then returns what it returns with roughness = 0 and L = 1, Chen_Friedel
\* included.
C10_DefaultsForAll ==
    (DefaultsOmitted /\ Completed /\ prev.fr.out # <<>>)
    => /\ Returned
       /\ fr.out = prev.fr.out
\* C11: a call with a non-positive density, viscosity, diameter or length, or
\* with a quality outside [0, 1], raises an error and returns no value (any
\* exception is taken for the error here).
C11_InvalidInputRejected ==
    (InvalidArgs /\ Completed) => (Raised /\ ~Returned)
\* C12: when a call of friction_factor fails, the correlation raises that
\* same error and returns nothing; the failed call is the last one it makes,
\* and it made no other call with the same (Re, eD).
C12_ProviderFailurePropagates ==
    \A i \in 1..Len(log) :
       IsErr(tab[log[i]])
       => /\ i = Len(log)
          /\ fr.exc = tab[log[i]].err
          /\ fr.out = <<>>
          /\ \A j \in 1..Len(log) : log[j] = log[i] => j = i

\* Theissing has raised the error of its third call of friction_factor
C12_Witness ==
    /\ fn = "Theissing" /\ Len(log) = 3
    /\ tab[log[3]] = UpstreamError
    /\ fr.exc = "UpstreamError" /\ fr.out = <<>>
\* the value w has a term with a power of a negative base under a fractional
\* exponent (a complex number in Python 3)
IsComplex(w) ==
    \E m \in DOMAIN w.p :
       \E t \in DOMAIN m : t[1] = "pow" /\ Positive(VNeg(t[2]))

\* C13: for valid arguments (friction_factor having answered) every
\* correlation returns a finite, non-negative real number: the call raises
\* nothing, and the value returned is neither complex nor negative.
C13_NonNegativeFinite ==
    (ValidArgs /\ Completed /\ ~ProviderFailed)
    => /\ Returned
       /\ ~IsComplex(fr.out[1])
       /\ ~Positive(VNeg(fr.out[1]))
\* the statements of the block b that calls no friction_factor
BodyOf(b) ==
    CASE b = "Friedel" -> Friedel
      [] b = "Gronnerud" -> Gronnerud
      [] b = "Gronnerud_return" -> Gronnerud_return
      [] b = "Chisholm" -> Chisholm
      [] b = "Baroczy_Chisholm" -> Baroczy_Chisholm
      [] b = "Muller_Steinhagen_Heck" -> Muller_Steinhagen_Heck
      [] b = "Lombardi_Pedrocchi" -> Lombardi_Pedrocchi
      [] b = "Theissing_ends" -> Theissing_ends
      [] b = "Theissing" -> Theissing
      [] b = "Jung_Radermacher" -> Jung_Radermacher
      [] b = "Tran" -> Tran
      [] b = "Chen_Friedel" -> Chen_Friedel
      [] b = "Zhang_Webb" -> Zhang_Webb

\* the mass flow of the single-phase block b
FlowOf(b) ==
    CASE b \in {"lo", "go"} -> X("m")
      [] b = "l" -> Mul(X("m"), Sub(N(1), X("x")))
      [] b = "g" -> Mul(X("m"), X("x"))

RECURSIVE Alone(_, _, _, _, _)
\* the frame and the provider calls of the call of f run by itself from its
\* block i on, in the frame frm with the calls lg made, the provider
\* answering by the table t
Alone(f, i, frm, lg, t) ==
    IF frm.exc # "" \/ frm.out # <<>> \/ i > Len(Flow(f))
    THEN [fr |-> frm, log |-> lg]
    ELSE LET b == Flow(f)[i]
             gas == b \in {"go", "g"}
             rho == IF gas THEN "rhog" ELSE "rhol"
             pre == Exec(PhaseHead(b, FlowOf(b), rho,
                                   IF gas THEN "mug" ELSE "mul"), frm)
             eD == Eval(RelativeRoughness, frm.v)
             key == <<pre.v["Re_" \o b], eD>>
             withdP == ~(b = "go" /\ f \in {"Friedel", "Chen_Friedel"})
         IN  IF b \notin {"lo", "go", "l", "g"}
             THEN Alone(f, i + 1, Exec(BodyOf(b), frm), lg, t)
             ELSE IF pre.exc # "" THEN [fr |-> pre, log |-> lg]
             ELSE IF IsErr(eD)
                  THEN [fr |-> [pre EXCEPT !.exc = eD.err], log |-> lg]
             ELSE IF key \notin DOMAIN t
                  THEN [fr |-> [pre EXCEPT !.exc = "NoAnswer"], log |-> lg]
             ELSE Alone(f, i + 1, Exec(PhaseTail(b, rho, t[key], withdP), pre),
                        Append(lg, key), t)

\* the frame in which the body of the current call starts when nothing but
\* its arguments is bound
FreshFrame ==
    IF WellCalled THEN Frame([n \in Params(fn) |-> Bound(n)])
    ELSE [Frame(<<>>) EXCEPT !.exc = "TypeError"]

\* the current call run by itself, with the answers the provider has given
RunAlone == Alone(fn, 1, Exec(Prologue(fn), FreshFrame), <<>>, tab)

C15_InterleavedAsAlone ==
    (Completed /\ prev.fn # "")
    => LET alone == RunAlone
       IN  fr = alone.fr /\ log = alone.log

\* Theissing has returned after its four provider calls while a call of
\* Chisholm, begun at the same time, is set aside between its two blocks
C15_Witness ==
    /\ fn = "Theissing" /\ Returned /\ Len(log) = 4
    /\ prev.fn = "Chisholm" /\ prev.pc = 2 /\ Len(prev.log) = 1
    /\ prev.fr.out = <<>> /\ prev.fr.exc = ""
    /\ fr = RunAlone.fr

\* C17: in Chisholm the exponent n of x and of (1 - x) in phi2_ch (line 375
\* reads the local n) is 0.25 when the call returns, for both values of
\* rough_correction.
C17_ExponentIsQuarter ==
    (fn = "Chisholm" /\ Returned) => fr.v["n"] = Rat(1, 4)

\* the number of provider calls of a call of f at quality x that returns
ExpectedCalls(f, x) ==
    CASE f = "Lombardi_Pedrocchi" -> 0
      [] f \in {"Gronnerud", "Jung_Radermacher", "Zhang_Webb"} -> 1
      [] f = "Theissing" -> IF x \in {Zero, One} THEN 2 ELSE 4
      [] OTHER -> 2

\* C18: a call never makes more than four provider calls, each of them with
\* eD = roughness/D, and a call that returns has made none (Lombardi_Pedrocchi),
\* one (Gronnerud, Jung_Radermacher, Zhang_Webb), two (Friedel, Chisholm,
\* Baroczy_Chisholm, Muller_Steinhagen_Heck, Tran, Chen_Friedel, and Theissing
\* at x = 0 or x = 1) or four (Theissing at 0 < x < 1).
C18_ProviderCallCounts ==
    /\ Len(log) <= 4
    /\ WellCalled
       => /\ \A i \in 1..Len(log) :
                log[i][2] = VDiv(Bound("roughness"), Bound("D"))
          /\ Returned => Len(log) = ExpectedCalls(fn, Bound("x"))

\* Theissing has returned at 0 < x < 1 after four provider calls, one for each
\* of its four Reynolds numbers, all with eD = roughness/D
C18_Witness ==
    /\ fn = "Theissing" /\ Returned /\ Len(log) = 4
    /\ Lt(Zero, Bound("x")) /\ Lt(Bound("x"), One)
    /\ \A i \in 1..4 : log[i][2] = VDiv(Bound("roughness"), Bound("D"))
    /\ log[1][1] = fr.v["Re_lo"] /\ log[2][1] = fr.v["Re_go"]
    /\ log[3][1] = fr.v["Re_l"] /\ log[4][1] = fr.v["Re_g"]

\* Chisholm without the roughness correction and Baroczy_Chisholm have both
\* returned on the same arguments, one called after the other
ChisholmPair ==
    /\ {fn, prev.fn} = {"Chisholm", "Baroczy_Chisholm"}
    /\ args.val = prev.args.val
    /\ Returned /\ prev.fr.out # <<>>
    /\ "B_ratio" \notin DOMAIN fr.v \cup DOMAIN prev.fr.v

\* the bands the claim lists: Gamma > 28, or 9.5 < Gamma <= 28 and
\* G_tp <= 600, or Gamma <= 9.5 and G_tp >= 1900
SameBBands ==
    LET Gam == fr.v["Gamma"]
        G == fr.v["G_tp"]
    IN  \/ Lt(Num(28), Gam)
        \/ Lt(Rat(19, 2), Gam) /\ Le(Gam, Num(28)) /\ Le(G, Num(600))
        \/ Le(Gam, Rat(19, 2)) /\ Ge(G, Num(1900))

\* C19 as stated: Baroczy_Chisholm and Chisholm without the roughness
\* correction return the same result exactly when Gamma and G_tp are in the
\* bands where their tables of B have the same formula.
C19_SameExactlyInBands ==
    ChisholmPair => (fr.out = prev.fr.out <=> SameBBands)

\* C19 amended: in the bands listed the two correlations have the same B and
\* return the same result; for any Gamma and G_tp they return the same result
\* exactly when their values of B are equal or the term of B vanishes (x = 0,
\* x = 1 or Gamma = 1).
C19_SameWhenBEqual ==
    ChisholmPair
    => /\ SameBBands => (fr.v["B"] = prev.fr.v["B"] /\ fr.out = prev.fr.out)
       /\ fr.out = prev.fr.out
          <=> \/ fr.v["B"] = prev.fr.v["B"]
              \/ fr.v["x"] \in {Zero, One}
              \/ fr.v["Gamma"] = One

\* with Gamma = 20 and G_tp = 600, the last mass flux of the band where both
\* tables give 520/(Gamma*sqrt(G_tp)), the two correlations have returned the
\* same result at x = 1/2
C19_Witness ==
    /\ ChisholmPair
    /\ fr.v["Gamma"] = Num(20) /\ fr.v["G_tp"] = Num(600)
    /\ fr.v["x"] = Rat(1, 2)
    /\ fr.v["B"] = prev.fr.v["B"]
    /\ fr.out = prev.fr.out

\* the statements of Gronnerud from the clamp on when the test of the clamp
\* is false
GronnerudUnclamped == Gronnerud[4][4] \o <<Gronnerud[5], Gronnerud[6]>>

\* C20: the clamp of Gronnerud is continuous at Frl = 1: there the formula
\* Frl^0.3 + 0.0055*ln(1/Frl)^2 gives 1, so a test with '>' in place of '>='
\* leaves f_Fr, dP_dL_Fr, phi_gd and the pressure drop returned as they are.
C20_ClampContinuous ==
    (fn = "Gronnerud" /\ "phi_gd" \in Locals /\ fr.v["Frl"] = One)
    => LET other == Exec(GronnerudUnclamped, Frame(fr.v))
       IN  /\ other.exc = ""
           /\ other.v["f_Fr"] = One
           /\ \A n \in {"f_Fr", "dP_dL_Fr", "phi_gd"} : other.v[n] = fr.v[n]
           /\ Returned => fr.out[1] = VMul(other.v["phi_gd"], fr.v["dP_lo"])

\* Gronnerud has returned at Frl = 1 inside (0, 1) without a call of log, and
\* the formula of the other branch calls log(1) there
C20_Witness ==
    /\ fn = "Gronnerud" /\ Returned
    /\ fr.v["Frl"] = One
    /\ fr.v["x"] = Rat(1, XDen)
    /\ fr.math = {}
    /\ <<"log", One>> \in Exec(GronnerudUnclamped, Frame(fr.v)).math

\* a call has returned after the same call with half its mass flow returned
MassFlowDoubled ==
    /\ fn # "" /\ prev.fn = fn
    /\ args = [prev.args EXCEPT !.val["m"] = VScale(<<2, 1>>, @)]
    /\ ValidArgs
    /\ Returned /\ prev.fr.out # <<>>

\* C16: with every other argument the same, a call with twice the mass flow
\* does not return less than the call with the mass flow itself (compared
\* where both values returned are rational).
C16_DoublingDoesNotDecrease ==
    MassFlowDoubled
    => ~(/\ IsRat(fr.out[1]) /\ IsRat(prev.fr.out[1])
         /\ RLt(RatOf(fr.out[1]), RatOf(prev.fr.out[1])))

====
